---- MODULE Spec2Model ----
(***************************************************************************)
(* pytest-tuitest: a child process on a pseudo terminal (process.py) and   *)
(* the terminal emulation that reads it (terminal.py).                     *)
(*                                                                         *)
(* The child, the capture pipes and the pty are the environment: the child *)
(* writes bytes to stdout, stderr or /dev/tty, may be stopped, continued,  *)
(* killed, or exit leaving a descendant that still holds its descriptors.  *)
(* The harness (Process) and the emulation (Terminal) are the program: one *)
(* action per method.  A byte is the number of the write that produced it, *)
(* so every byte of a run is distinct and loss, duplication and reordering *)
(* are visible.                                                            *)
(***************************************************************************)
EXTENDS Integers, Sequences, FiniteSets, TLC

\* ------------------------------------------------------------------ bounds
\* writes the child attempts in one run
MaxWrites == 3
\* bytes a capture pipe holds before a write to it fails (64 KiB on Linux)
PipeCapacity == 2
PtyCapacity == 2
\* scaled max_size of Process.get_new_output (1024 in the source)
MaxSize == 2
\* scaled max_read_size of read_all (1024 in the source)
MaxReadSize == 2
\* calls of Process.wait_for_finished in one run
MaxCalls == 2
\* terminal sizes drawn by the query specification
MaxLines == 2
MaxColumns == 3
\* the clock stops here; durations given to wait_for_stable_output
MaxTime == 4
MaxStable == 2
MaxWait == 2
\* Bytes the input queue of the pty holds, characters of one send, sends
InputCapacity == 3
MaxSendLen == 2
MaxSends == 3
\* Bytes of a stdin payload
MaxPayload == 3

\* ------------------------------------------------------------ value types
\* Python's None and a present value
None == << >>
Some(x) == << x >>

Min(a, b) == IF a <= b THEN a ELSE b
Max(a, b) == IF a >= b THEN a ELSE b

Range(s) == { s[i] : i \in 1..Len(s) }
Take(s, n) == SubSeq(s, 1, Min(n, Len(s)))
Drop(s, n) == SubSeq(s, Min(n, Len(s)) + 1, Len(s))

Channels == { "stdout", "stderr", "tty" }
Captured == { "stdout", "stderr" }

\* wait statuses as waitpid reports them (16 bit): exit code c is c * 256,
\* a stop by signal s is s * 256 + 127, a kill by signal s is s
SIGSTOP == 19
SIGKILL == 9
ExitCodes == { 0, 3 }
ExitedStatus(c) == (c * 256) % 65536
StoppedStatus(s) == (s * 256 + 127) % 65536
SignaledStatus(s) == s

VARIABLES
    lines, columns,             \* Process._lines, Process._columns
    stdin_redirected,           \* Process._stdin_redirected
    stdout_redirected,          \* Process._stdout_redirected
    stderr_redirected,          \* Process._stderr_redirected
    exit_status,                \* Process._exit_status: None or Some(int)
    captured_stdout,            \* Process._captured_stdout: None or Some(bytes)
    captured_stderr,            \* Process._captured_stderr: None or Some(bytes)
    process_running,            \* Terminal._process_running
    screen_fed,                 \* the bytes fed to Terminal._stream, in order
    screen,                     \* the dimensions of Terminal._screen
    child,                      \* the child process, as the kernel sees it
    pipes,                      \* contents of the capture pipes
    ptyBuf,                     \* bytes written to the pty slave, not yet read
    wrote,                      \* per channel, the bytes the child has written
    tried,                      \* per channel, the bytes the child tried to write
    ret,                        \* outcome of the last call of the program
    hist,                       \* what the calls so far did
    now,                        \* time.time(), in poll intervals
    wso,                        \* the frame of Terminal.wait_for_stable_output
    obs,                        \* what an observer of that call has seen
    input,                      \* the input side of the pty: master to slave
    boot,                       \* Process.__init__ in progress, parent and child
    fixtures                    \* the setup of the plugin's terminal fixture

vars == << lines, columns, stdin_redirected, stdout_redirected, stderr_redirected,
           exit_status, captured_stdout, captured_stderr, process_running,
           screen_fed, screen, child, pipes, ptyBuf, wrote, tried, ret, hist, now, wso, obs,
           input, boot, fixtures >>

process_fields == << lines, columns, stdin_redirected, stdout_redirected,
                     stderr_redirected >>
config == << process_fields, fixtures >>
harness == << exit_status, captured_stdout, captured_stderr >>
terminal == << process_running, screen_fed, screen >>
timing == << now, wso, obs >>

\* ------------------------------------------------------------ environment
ChildAlive == child.state \in { "running", "stopped" }

any_io_redirected ==
    stdin_redirected \/ stdout_redirected \/ stderr_redirected
all_io_redirected == stdin_redirected /\ stdout_redirected /\ stderr_redirected

RedirectedSwapped(ch) ==
    CASE ch = "stdout" -> stderr_redirected
      [] ch = "stderr" -> stdout_redirected
      [] OTHER -> FALSE

\* The constructor's dup2 calls in the child: a captured channel is the write
\* end of its pipe, every other descriptor stays the pty slave.
Redirected(ch) ==
    CASE ch = "stdout" -> stdout_redirected
      [] ch = "stderr" -> stderr_redirected
      [] OTHER -> FALSE

\* The write end of a capture pipe is held by the child (the parent closed its
\* copy in the constructor) and by whatever descendant inherited it.
PipeWritersOpen == (ChildAlive /\ ~child.stdClosed) \/ child.heir

\* The pty slave is held by the child's standard descriptors that were not
\* redirected, unless the child has closed them, by its /dev/tty descriptor,
\* and by a descendant's descriptors.
SlaveOpen ==
    \/ ChildAlive /\ ((~all_io_redirected /\ ~child.stdClosed) \/ child.ttyOpen)
    \/ child.heir /\ ~all_io_redirected

NextByte == tried["stdout"] + tried["stderr"] + tried["tty"] + 1

\* The child writes one byte to a channel.  A captured channel is a
\* non-blocking pipe (os.pipe2(O_NONBLOCK) flags both ends): the write fails
\* with EAGAIN once the pipe is full.  Everything else reaches the pty, whose
\* slave is blocking: a write to a full pty waits until the master was read.
ChildWrite(ch) ==
    /\ child.state = "running"
    /\ NextByte <= MaxWrites
    /\ ch = "tty" => child.ttyOpen
    /\ ch # "tty" => ~child.stdClosed
    /\ ~Redirected(ch) => Len(ptyBuf) < PtyCapacity
    /\ tried' = [tried EXCEPT ![ch] = @ + 1]
    /\ IF Redirected(ch)
       THEN IF Len(pipes[ch]) < PipeCapacity
            THEN /\ pipes' = [pipes EXCEPT ![ch] = Append(@, NextByte)]
                 /\ wrote' = [wrote EXCEPT ![ch] = Append(@, NextByte)]
                 /\ UNCHANGED ptyBuf
            ELSE UNCHANGED << pipes, wrote, ptyBuf >>
       ELSE /\ ptyBuf' = Append(ptyBuf, NextByte)
            /\ wrote' = [wrote EXCEPT ![ch] = Append(@, NextByte)]
            /\ UNCHANGED pipes
    /\ obs' = [obs EXCEPT !.lastEmit = IF Redirected(ch) THEN @ ELSE now,
                          !.quiet = @ \/ ( /\ ~Redirected(ch)
                                           /\ wso.pc # "idle"
                                           /\ now - Max(obs.lastEmit, obs.callStart)
                                                >= wso.stable_time_sec )]
    /\ UNCHANGED << config, input, boot, harness, terminal, child, ret, hist, now, wso >>

\* The child closes its standard input, output and error.
ChildCloseStd ==
    /\ child.state = "running"
    /\ ~child.stdClosed
    /\ child' = [child EXCEPT !.stdClosed = TRUE]
    /\ UNCHANGED << config, input, boot, harness, terminal, pipes, ptyBuf, wrote, tried, ret,
                    hist, timing >>

\* The child opens or closes /dev/tty, its controlling terminal.
ChildOpenTty ==
    /\ child.state = "running"
    /\ ~child.ttyOpen
    /\ child' = [child EXCEPT !.ttyOpen = TRUE]
    /\ UNCHANGED << config, input, boot, harness, terminal, pipes, ptyBuf, wrote, tried, ret,
                    hist, timing >>

ChildCloseTty ==
    /\ child.state = "running"
    /\ child.ttyOpen
    /\ child' = [child EXCEPT !.ttyOpen = FALSE]
    /\ UNCHANGED << config, input, boot, harness, terminal, pipes, ptyBuf, wrote, tried, ret,
                    hist, timing >>

\* The child exits with code c; with leavesHeir a descendant outlives it and
\* keeps the descriptors it inherited.
ChildExit(c, leavesHeir) ==
    /\ child.state = "running"
    /\ child' = [child EXCEPT !.state = "zombie", !.status = ExitedStatus(c),
                              !.how = "exited", !.heir = leavesHeir,
                              !.ttyOpen = FALSE]
    /\ UNCHANGED << config, input, boot, harness, terminal, pipes, ptyBuf, wrote, tried, ret,
                    hist, timing >>

\* SIGKILL ends the child, running or stopped.
ChildKilled ==
    /\ ChildAlive
    /\ child' = [child EXCEPT !.state = "zombie", !.status = SignaledStatus(SIGKILL),
                              !.how = "killed", !.stopPending = FALSE,
                              !.ttyOpen = FALSE]
    /\ UNCHANGED << config, input, boot, harness, terminal, pipes, ptyBuf, wrote, tried, ret,
                    hist, timing >>

\* SIGSTOP and SIGCONT.
ChildStop ==
    /\ child.state = "running"
    /\ child' = [child EXCEPT !.state = "stopped", !.stopPending = TRUE]
    /\ UNCHANGED << config, input, boot, harness, terminal, pipes, ptyBuf, wrote, tried, ret,
                    hist, timing >>

ChildCont ==
    /\ child.state = "stopped"
    /\ child' = [child EXCEPT !.state = "running", !.stopPending = FALSE]
    /\ UNCHANGED << config, input, boot, harness, terminal, pipes, ptyBuf, wrote, tried, ret,
                    hist, timing >>

\* The descendant the child left behind exits.
HeirExit ==
    /\ child.heir
    /\ ~ChildAlive
    /\ child' = [child EXCEPT !.heir = FALSE]
    /\ UNCHANGED << config, input, boot, harness, terminal, pipes, ptyBuf, wrote, tried, ret,
                    hist, timing >>

\* ---------------------------------------------------------------- Process
\* os.read on the read end of a capture pipe: data while there is some,
\* BlockingIOError on an empty pipe that still has a writer, b"" at end of file.
PipeRead(contents, writersOpen) ==
    IF contents # << >>
    THEN [kind |-> "data", data |-> Take(contents, MaxReadSize)]
    ELSE IF writersOpen
         THEN [kind |-> "BlockingIOError", data |-> << >>]
         ELSE [kind |-> "data", data |-> << >>]

\* read_all of Process._update_captured_stds: read until a read returns b"".
\* An exception of os.read leaves the loop with what was read thrown away.
RECURSIVE read_all(_, _, _, _)
read_all(contents, writersOpen, acc, reads) ==
    LET r == PipeRead(contents, writersOpen) IN
    IF r.kind # "data"
    THEN [raised |-> TRUE, data |-> << >>, rest |-> contents, reads |-> reads + 1]
    ELSE IF r.data = << >>
         THEN [raised |-> FALSE, data |-> acc, rest |-> contents, reads |-> reads + 1]
         ELSE read_all(Drop(contents, Len(r.data)), writersOpen,
                       acc \o r.data, reads + 1)

\* Process._update_captured_stds: each requested channel that has no buffer yet
\* is read to its end, stdout first; an exception ends the method.
update_captured_stds(out, err, pp, writersOpen) ==
    LET doOut == stdout_redirected /\ out = None
        ro == read_all(pp["stdout"], writersOpen, << >>, 0)
        out1 == IF doOut /\ ~ro.raised THEN Some(ro.data) ELSE out
        pp1 == IF doOut THEN [pp EXCEPT !["stdout"] = ro.rest] ELSE pp
        n1 == IF doOut THEN ro.reads ELSE 0
        raised1 == doOut /\ ro.raised
        doErr == ~raised1 /\ stderr_redirected /\ err = None
        re == read_all(pp1["stderr"], writersOpen, << >>, 0)
        err1 == IF doErr /\ ~re.raised THEN Some(re.data) ELSE err
        pp2 == IF doErr THEN [pp1 EXCEPT !["stderr"] = re.rest] ELSE pp1
        n2 == IF doErr THEN re.reads ELSE 0
    IN [raised |-> raised1 \/ (doErr /\ re.raised),
        out |-> out1, err |-> err1, pipes |-> pp2, reads |-> n1 + n2]

\* os.waitpid(pid, WUNTRACED): the status of a child that has terminated (which
\* is reaped) or that is stopped and not yet reported; ChildProcessError when
\* there is no child left to wait for.  The call blocks in every other state.
WaitpidReady ==
    \/ child.state \in { "zombie", "reaped" }
    \/ child.state = "stopped" /\ child.stopPending

Waitpid ==
    CASE child.state = "zombie" ->
            [raised |-> FALSE, status |-> child.status,
             child |-> [child EXCEPT !.state = "reaped"]]
      [] child.state = "stopped" ->
            [raised |-> FALSE, status |-> StoppedStatus(SIGSTOP),
             child |-> [child EXCEPT !.stopPending = FALSE]]
      [] OTHER ->
            [raised |-> TRUE, status |-> 0, child |-> child]

\* "Process already finished and everything already set"
AlreadyFinishedTruthy == exit_status # None /\ exit_status[1] # 0
AlreadyFinished == exit_status # None

\* exit_status_indication >> 8
ShiftRight8(status) == status \div 256

Returned(op, val) == [op |-> op, kind |-> "return", val |-> val]
Raised(op, exc) == [op |-> op, kind |-> "raise", val |-> << exc >>]

Noted(h, r, waited, reads) ==
    [h EXCEPT !.calls = @ + 1,
              !.how = child.how,
              !.waitpids = @ + (IF waited THEN 1 ELSE 0),
              !.pipeReads = @ + reads,
              !.returns = @ + (IF r.kind = "return" THEN 1 ELSE 0),
              !.first = IF @ = None /\ r.kind = "return" THEN Some(r.val) ELSE @]

\* Process.wait_for_finished
WaitForFinished ==
    /\ hist.calls < MaxCalls
    /\ wso.pc = "idle"
    /\ IF AlreadyFinished
       THEN LET r == Returned("wait_for_finished",
                              << exit_status[1], captured_stdout, captured_stderr >>)
            IN /\ ret' = r
               /\ hist' = Noted(hist, r, FALSE, 0)
               /\ UNCHANGED << harness, child, pipes >>
       ELSE /\ WaitpidReady
            /\ LET w == Waitpid
                   status == ShiftRight8(w.status)
                   alive == w.child.state \in { "running", "stopped" }
                   u == update_captured_stds(captured_stdout, captured_stderr, pipes,
                                             alive \/ w.child.heir)
                   r == IF w.raised
                        THEN Raised("wait_for_finished", "ChildProcessError")
                        ELSE IF u.raised
                             THEN Raised("wait_for_finished", "BlockingIOError")
                             ELSE Returned("wait_for_finished",
                                           << status, u.out, u.err >>)
               IN /\ child' = w.child
                  /\ ret' = r
                  /\ IF w.raised
                     THEN /\ UNCHANGED << harness, pipes >>
                          /\ hist' = Noted(hist, r, TRUE, 0)
                     ELSE /\ exit_status' = Some(status)
                          /\ captured_stdout' = u.out
                          /\ captured_stderr' = u.err
                          /\ pipes' = u.pipes
                          /\ hist' = Noted(hist, r, TRUE, u.reads)
    /\ UNCHANGED << config, input, boot, terminal, ptyBuf, wrote, tried, timing >>

\* os.read on the pty master, non-blocking: data while the buffer holds some,
\* BlockingIOError while a slave descriptor is open, and after the last one is
\* closed the platform's end of file: EIO (Linux) or a zero-length read.
EofKinds == { "EIO", "empty" }

MasterReadN(buf, slaveOpen, eof, max_size) ==
    IF buf # << >>
    THEN [kind |-> "data", data |-> Take(buf, max_size)]
    ELSE IF slaveOpen
         THEN [kind |-> "BlockingIOError", data |-> << >>]
         ELSE [kind |-> eof, data |-> << >>]

\* The read with the default max_size
MasterRead(buf, slaveOpen, eof) == MasterReadN(buf, slaveOpen, eof, MaxSize)

\* os.read on a descriptor that is not open fails with EBADF
ReadFaults == { "EBADF" }

\* Process.get_new_output, from the outcome of its os.read.  An OSError other
\* than EIO leaves the except block without a return or a raise, and the
\* test of data that follows finds the name unbound.
get_new_output_would_block_is_end(r, allRedirected) ==
    CASE r.kind = "BlockingIOError" -> Raised("get_new_output", "ProcessFinished")
      [] r.kind = "EIO" ->
            IF allRedirected
            THEN Returned("get_new_output", << >>)
            ELSE Raised("get_new_output", "ProcessFinished")
      [] r.kind \in ReadFaults -> Raised("get_new_output", "UnboundLocalError")
      [] OTHER ->
            IF r.data = << >>
            THEN Raised("get_new_output", "ProcessFinished")
            ELSE Returned("get_new_output", r.data)
get_new_output(r, allRedirected) ==
    CASE r.kind = "BlockingIOError" -> Returned("get_new_output", << >>)
      [] r.kind = "EIO" ->
            IF allRedirected
            THEN Returned("get_new_output", << >>)
            ELSE Raised("get_new_output", "ProcessFinished")
      [] r.kind \in ReadFaults -> Raised("get_new_output", "UnboundLocalError")
      [] OTHER ->
            IF r.data = << >>
            THEN Raised("get_new_output", "ProcessFinished")
            ELSE Returned("get_new_output", r.data)

\* A call of Process.get_new_output by the test itself.  os_read is what the
\* read does: fault is None, or the error of a read on a descriptor the test
\* has closed.  The outcome is kept with the read it came from.
GetNewOutput(max_size, eof, fault) ==
    LET os_read == IF fault = None
                   THEN MasterReadN(ptyBuf, SlaveOpen, eof, max_size)
                   ELSE [kind |-> fault[1], data |-> << >>]
        outcome == get_new_output(os_read, all_io_redirected)
    IN /\ wso.pc = "idle"
       /\ ret' = [outcome EXCEPT !.val = << @, os_read.kind, max_size, ptyBuf >>]
       /\ ptyBuf' = Drop(ptyBuf, Len(os_read.data))
       /\ UNCHANGED << config, input, boot, harness, terminal, child, pipes, wrote,
                       tried, hist, timing >>

\* --------------------------------------------------------------- Terminal
\* One pass of the loop of Terminal._update_screen: a read; data is fed to the
\* stream and the loop goes on, no data ends it, ProcessFinished ends it and
\* clears _process_running.
update_screen_pass(buf, fedSoFar, slaveOpen, allRedirected, eof) ==
    LET r == get_new_output(MasterRead(buf, slaveOpen, eof), allRedirected) IN
    IF r.kind = "raise"
    THEN [buf |-> buf, fed |-> fedSoFar, running |-> FALSE, more |-> FALSE]
    ELSE IF r.val = << >>
         THEN [buf |-> buf, fed |-> fedSoFar, running |-> TRUE, more |-> FALSE]
         ELSE [buf |-> Drop(buf, Len(r.val)), fed |-> fedSoFar \o r.val,
               running |-> TRUE, more |-> TRUE]

\* Terminal._update_screen: the passes up to the one that ends the loop
RECURSIVE update_screen_loop(_, _, _, _, _, _)
update_screen_loop(buf, fedSoFar, updated, slaveOpen, allRedirected, eof) ==
    LET p == update_screen_pass(buf, fedSoFar, slaveOpen, allRedirected, eof) IN
    IF p.more
    THEN LET rest == update_screen_loop(p.buf, p.fed, TRUE, slaveOpen,
                                        allRedirected, eof)
         IN [rest EXCEPT !.reads = @ + 1]
    ELSE [buf |-> p.buf, fed |-> p.fed, running |-> p.running, updated |-> updated,
          reads |-> 1]

update_screen_ignoring_flag(eof) ==
    update_screen_loop(ptyBuf, screen_fed, FALSE, SlaveOpen, all_io_redirected, eof)
update_screen(eof) ==
    IF process_running
    THEN update_screen_loop(ptyBuf, screen_fed, FALSE, SlaveOpen,
                            all_io_redirected, eof)
    ELSE [buf |-> ptyBuf, fed |-> screen_fed, running |-> FALSE, updated |-> FALSE,
          reads |-> 0]

\* What a query has done when it ends, u being its refresh of the screen: the
\* reads made, and whether it is one more refresh in a row that found the
\* child exited, the slave closed and nothing to read, and still left
\* _process_running set.
Drained(h, u) ==
    [h EXCEPT !.ptyReads = u.reads,
              !.blind = IF ~ChildAlive /\ ~SlaveOpen /\ u.buf = << >> /\ u.running
                        THEN Min(@ + 1, 2) ELSE 0]

\* The argument check of Terminal.get_string_at
column_start_outside(column) == column < 0 \/ column >= columns
column_end_unchecked(column, length) == FALSE
column_end_outside(column, length) ==
    LET column_end == column + length - 1
    IN column_end < 0 \/ column_end >= columns
line_outside(line) == line < 0 \/ line >= lines
length_invalid(length) == length <= 0

string_args_invalid(line, column, length) ==
    \/ column_start_outside(column)
    \/ column_end_outside(column, length)
    \/ line_outside(line)
    \/ length_invalid(length)

\* The emulator's buffer: a line holds the cells something was printed to, and
\* a cell nothing was printed to reads as the default character, a space.
\* The content of a cell is a string, kept as a sequence of characters.
EmptyRow == << >>
default_char == << " " >>
CellData(row, column) == IF column \in DOMAIN row THEN row[column] ELSE default_char

\* "".join(chars)
RECURSIVE join(_)
join(chars) == IF chars = << >> THEN << >> ELSE Head(chars) \o join(Tail(chars))

\* The cells get_string_at reads: range(0, length) from column on
chars_reversed(row, column, length) ==
    [ i \in 1..length |-> CellData(row, column + length - i) ]
chars_of(row, column, length) ==
    [ i \in 1..length |-> CellData(row, column + (i - 1)) ]

\* Terminal.get_string_at: the arguments are checked first; the screen is
\* refreshed only for valid ones.  row is what the emulator holds on the line
\* after the refresh; it holds printed cells only if output was fed to it.
GetStringAtOn(line, column, length, row, eof) ==
    /\ wso.pc = "idle"
    /\ IF string_args_invalid(line, column, length)
       THEN /\ ret' = [op |-> "get_string_at", kind |-> "raise",
                       val |-> << "OutsideBounds", line, column, length >>]
            /\ row = EmptyRow
            /\ UNCHANGED << terminal, ptyBuf, hist >>
       ELSE LET u == update_screen(eof) IN
            /\ u.fed = << >> => row = EmptyRow
            /\ ret' = [op |-> "get_string_at", kind |-> "return",
                       val |-> << "str", line, column, length,
                                  join(chars_of(row, column, length)), row >>]
            /\ process_running' = u.running
            /\ screen_fed' = u.fed
            /\ UNCHANGED screen
            /\ ptyBuf' = u.buf
            /\ hist' = Drained(hist, u)
    /\ UNCHANGED << config, input, boot, harness, child, pipes, wrote, tried, timing >>

\* The query on a line nothing is printed to
GetStringAt(line, column, length, eof) ==
    GetStringAtOn(line, column, length, EmptyRow, eof)

\* Strings of the emulator are sequences of characters
hexdigits == { "0", "1", "2", "3", "4", "5", "6", "7", "8", "9",
               "a", "b", "c", "d", "e", "f", "A", "B", "C", "D", "E", "F" }

Bright == << "b", "r", "i", "g", "h", "t" >>
Black == << "b", "l", "a", "c", "k" >>
Red == << "r", "e", "d" >>
Green == << "g", "r", "e", "e", "n" >>
Brown == << "b", "r", "o", "w", "n" >>
Blue == << "b", "l", "u", "e" >>
Magenta == << "m", "a", "g", "e", "n", "t", "a" >>
Cyan == << "c", "y", "a", "n" >>
White == << "w", "h", "i", "t", "e" >>
Default == << "d", "e", "f", "a", "u", "l", "t" >>
Bfight == << "b", "f", "i", "g", "h", "t" >>

\* _PYTE_TO_COLOR_NAMED_MAP: the emulator's color names and their Color16 members
PYTE_TO_COLOR_NAMED_MAP ==
    << << Black, "BLACK" >>, << Red, "RED" >>, << Green, "GREEN" >>,
       << Brown, "YELLOW" >>, << Blue, "BLUE" >>, << Magenta, "MAGENTA" >>,
       << Cyan, "CYAN" >>, << White, "WHITE" >>,
       << Bright \o Black, "BRIGHT_BLACK" >>, << Bright \o Red, "BRIGHT_RED" >>,
       << Bright \o Green, "BRIGHT_GREEN" >>, << Bright \o Brown, "BRIGHT_YELLOW" >>,
       << Bright \o Blue, "BRIGHT_BLUE" >>, << Bright \o Magenta, "BRIGHT_MAGENTA" >>,
       << Bfight \o Magenta, "BRIGHT_MAGENTA" >>,
       << Bright \o Cyan, "BRIGHT_CYAN" >>, << Bright \o White, "BRIGHT_WHITE" >>,
       << Default, "DEFAULT" >> >>

MapKeys == { PYTE_TO_COLOR_NAMED_MAP[i][1] : i \in 1..Len(PYTE_TO_COLOR_NAMED_MAP) }
MapGet(key) ==
    LET i == CHOOSE j \in 1..Len(PYTE_TO_COLOR_NAMED_MAP) :
                 PYTE_TO_COLOR_NAMED_MAP[j][1] = key
    IN PYTE_TO_COLOR_NAMED_MAP[i][2]

\* _is_rgb_string
is_rgb_string(string_to_check) ==
    LET all_hex_digits ==
            \A i \in 1..Len(string_to_check) : string_to_check[i] \in hexdigits
        good_len == Len(string_to_check) = 6
    IN good_len /\ all_hex_digits

\* Terminal._raise_if_outside_bounds: TRUE when it raises
raise_if_outside_bounds_line_only(line, column) == line < 0 \/ line >= lines
raise_if_outside_bounds(line, column) ==
    \/ line < 0 \/ line >= lines
    \/ column < 0 \/ column >= columns

\* The part of get_foreground_at after _get_attribute_at has returned
foreground_of(pyte_color) ==
    IF pyte_color \in MapKeys
    THEN << "Color16", MapGet(pyte_color) >>
    ELSE IF is_rgb_string(pyte_color)
         THEN << "str", pyte_color >>
         ELSE << "UnrecognizedColor" >>

\* The part of get_background_at after _get_attribute_at has returned
background_named_only(pyte_color) ==
    IF pyte_color \in MapKeys
    THEN << "Color16", MapGet(pyte_color) >>
    ELSE << "UnrecognizedColor" >>
background_of(pyte_color) ==
    IF pyte_color \in MapKeys
    THEN << "Color16", MapGet(pyte_color) >>
    ELSE IF is_rgb_string(pyte_color)
         THEN << "str", pyte_color >>
         ELSE << "UnrecognizedColor" >>

\* _STYLE_PYTE_ATTRIBUTE_MAP
Styles == { "BOLD", "ITALIC", "UNDERLINE", "BLINKING", "INVERSE", "STRIKETHROUGH" }
STYLE_PYTE_ATTRIBUTE_MAP_italic_as_bold ==
    [ style \in Styles |->
        CASE style = "BOLD" -> "bold"
          [] style = "ITALIC" -> "bold"
          [] style = "UNDERLINE" -> "underscore"
          [] style = "BLINKING" -> "blink"
          [] style = "INVERSE" -> "reverse"
          [] style = "STRIKETHROUGH" -> "strikethrough" ]
STYLE_PYTE_ATTRIBUTE_MAP ==
    [ style \in Styles |->
        CASE style = "BOLD" -> "bold"
          [] style = "ITALIC" -> "italics"
          [] style = "UNDERLINE" -> "underscore"
          [] style = "BLINKING" -> "blink"
          [] style = "INVERSE" -> "reverse"
          [] style = "STRIKETHROUGH" -> "strikethrough" ]

\* Terminal._get_attribute_at as a step of a query: the screen is refreshed,
\* then the coordinates are checked, then the cell is read.  cell is what the
\* emulator holds at (line, column): a record with fields fg, bg and styles.
GetAttributeAt(op, line, column, cell, eof, result) ==
    LET u == update_screen(eof) IN
    /\ wso.pc = "idle"
    /\ process_running' = u.running
    /\ screen_fed' = u.fed
    /\ UNCHANGED screen
    /\ ptyBuf' = u.buf
    /\ hist' = Drained(hist, u)
    /\ ret' = IF raise_if_outside_bounds(line, column)
              THEN [op |-> op, kind |-> "raise",
                    val |-> << "OutsideBounds", line, column >>]
              ELSE IF result = << "UnrecognizedColor" >>
                   THEN [op |-> op, kind |-> "raise",
                         val |-> << "UnrecognizedColor", line, column, cell >>]
                   ELSE [op |-> op, kind |-> "return",
                         val |-> << result, line, column, cell >>]
    /\ UNCHANGED << config, input, boot, harness, child, pipes, wrote, tried, timing >>

GetForegroundAt(line, column, cell, eof) ==
    GetAttributeAt("get_foreground_at", line, column, cell, eof, foreground_of(cell.fg))

GetBackgroundAt(line, column, cell, eof) ==
    GetAttributeAt("get_background_at", line, column, cell, eof, background_of(cell.bg))

HasStyleAt(style, line, column, cell, eof) ==
    GetAttributeAt("has_style_at", line, column, cell, eof,
                   << "bool", STYLE_PYTE_ATTRIBUTE_MAP[style] \in cell.styles, style >>)

\* str.encode() of Terminal.send: UTF-8, one byte for an ASCII character and
\* two for a character of the Latin-1 supplement
Characters == { "a", "e'" }
EncodeChar(c) == IF c = "a" THEN << 97 >> ELSE << 195, 169 >>

RECURSIVE encode(_)
encode(characters) ==
    IF characters = << >> THEN << >>
    ELSE EncodeChar(Head(characters)) \o encode(Tail(characters))

\* os.write on the non-blocking pty master: BlockingIOError when the input
\* queue of the pty is full, otherwise the number of bytes the queue took,
\* which is less than the length when the queue fills up.
MasterWrite(queue, bytes_to_write) ==
    LET free == InputCapacity - Len(queue) IN
    IF bytes_to_write # << >> /\ free <= 0
    THEN [raised |-> TRUE, written |-> 0, queue |-> queue]
    ELSE [raised |-> FALSE, written |-> Min(free, Len(bytes_to_write)),
          queue |-> queue \o Take(bytes_to_write, free)]

\* Process.write: one os.write, its result dropped
write(queue, bytes_to_write) == MasterWrite(queue, bytes_to_write)

\* Terminal.send
Send(characters) ==
    LET encoded == encode(characters)
        w == write(input.queue, encoded)
    IN /\ wso.pc = "idle"
       /\ input.calls < MaxSends
       /\ ret' = IF w.raised
                 THEN Raised("send", "BlockingIOError")
                 ELSE [op |-> "send", kind |-> "return", val |-> << characters >>]
       /\ input' = [input EXCEPT !.queue = w.queue,
                                 !.calls = @ + 1,
                                 !.sent = IF w.raised THEN @ ELSE @ \o encoded]
       /\ UNCHANGED << config, boot, harness, terminal, child, pipes, ptyBuf, wrote,
                       tried, hist, timing >>

\* The child reads its terminal: up to n bytes leave the input queue
ChildReadTty(n) ==
    /\ child.state = "running"
    /\ input.queue # << >>
    /\ input' = [input EXCEPT !.queue = Drop(@, n), !.got = @ \o Take(input.queue, n)]
    /\ UNCHANGED << config, boot, harness, terminal, child, pipes, ptyBuf, wrote,
                    tried, ret, hist, timing >>

\* select([child_fd], [], [], timeout) of Process.wait_for_output: the master
\* is readable when it holds data and when the last slave descriptor is closed.
Readable == ptyBuf # << >> \/ ~SlaveOpen

\* Terminal.wait_for_output: Process.wait_for_output without a timeout, which
\* returns once the master is readable; its result is dropped and nothing is
\* read.
WaitForOutput ==
    /\ wso.pc = "idle"
    /\ Readable
    /\ ret' = Returned("wait_for_output", << >>)
    /\ UNCHANGED << config, input, boot, harness, terminal, child, pipes, ptyBuf, wrote,
                    tried, hist, timing >>

\* timeout_sec of the poll in wait_for_stable_output, the unit of time here
PollInterval == 1

\* should_poll of Terminal.wait_for_stable_output, at time t
should_poll_update_from_start(running, t, started, last_update, stable_time_sec, max_wait_sec) ==
    IF ~running THEN "return"
    ELSE IF t - started >= stable_time_sec THEN "return"
    ELSE IF t - started > max_wait_sec THEN "raise"
    ELSE "poll"

should_poll_no_finished_check(running, t, started, last_update, stable_time_sec, max_wait_sec) ==
    IF t - last_update >= stable_time_sec THEN "return"
    ELSE IF t - started > max_wait_sec THEN "raise"
    ELSE "poll"

should_poll_timeout_first(running, t, started, last_update, stable_time_sec, max_wait_sec) ==
    IF t - started > max_wait_sec THEN "raise"
    ELSE IF ~running THEN "return"
    ELSE IF t - last_update >= stable_time_sec THEN "return"
    ELSE "poll"

should_poll_stable_last(running, t, started, last_update, stable_time_sec, max_wait_sec) ==
    IF ~running THEN "return"
    ELSE IF t - started > max_wait_sec THEN "raise"
    ELSE IF t - last_update >= stable_time_sec THEN "return"
    ELSE "poll"

should_poll(running, t, started, last_update, stable_time_sec, max_wait_sec) ==
    IF ~running THEN "return"
    ELSE IF t - last_update >= stable_time_sec THEN "return"
    ELSE IF t - started > max_wait_sec THEN "raise"
    ELSE "poll"

\* Terminal.wait_for_stable_output is entered: its first _update_screen begins.
WaitForStableOutput(stable_time_sec, max_wait_sec) ==
    /\ wso.pc = "idle"
    /\ wso' = [pc |-> "entry", stable_time_sec |-> stable_time_sec,
               max_wait_sec |-> max_wait_sec, started |-> 0, last_update |-> 0,
               pollLeft |-> 0, screen_updated |-> FALSE, feeding |-> FALSE]
    /\ obs' = [obs EXCEPT !.quiet = FALSE, !.callStart = now, !.entered = now,
                          !.polls = 0, !.finishedAtEntry = FALSE,
                          !.lastConsume = -1, !.eofInLoop = FALSE, !.eofAt = 0,
                          !.pollsAtEof = 0, !.ended = 0, !.runningAtEnd = TRUE]
    /\ ret' = [op |-> "wait_for_stable_output", kind |-> "pending", val |-> << >>]
    /\ UNCHANGED << config, input, boot, harness, terminal, child, pipes, ptyBuf, wrote, tried,
                    hist, now >>

\* One pass of _update_screen inside wait_for_stable_output, the child running
\* beside it.  The pass that ends the first refresh sets started and
\* last_update; the pass that ends a refresh of the loop sets last_update when
\* the refresh fed something.
\* if screen_updated: last_update = time.time()
last_update_always(screen_updated, last_update, t) == t
last_update_after(screen_updated, last_update, t) ==
    IF screen_updated THEN t ELSE last_update

WsoUpdateScreen(eof) ==
    /\ wso.pc \in { "entry", "drain" }
    /\ LET p == IF process_running
                THEN update_screen_pass(ptyBuf, screen_fed, SlaveOpen,
                                        all_io_redirected, eof)
                ELSE [buf |-> ptyBuf, fed |-> screen_fed, running |-> FALSE,
                      more |-> FALSE]
       IN /\ process_running' = p.running
          /\ screen_fed' = p.fed
          /\ UNCHANGED screen
          /\ ptyBuf' = p.buf
          /\ IF p.more
             THEN /\ wso' = [wso EXCEPT !.screen_updated = TRUE, !.feeding = TRUE]
                  /\ obs' = [obs EXCEPT !.lastConsume =
                                           IF wso.pc = "drain" THEN now ELSE @]
             ELSE IF wso.pc = "entry"
                  THEN /\ wso' = [wso EXCEPT !.pc = "check", !.started = now,
                                             !.last_update = now,
                                             !.screen_updated = FALSE,
                                             !.feeding = FALSE]
                       /\ obs' = [obs EXCEPT !.entered = now,
                                             !.finishedAtEntry = ~p.running]
                  ELSE /\ wso' = [wso EXCEPT !.pc = "check",
                                             !.last_update =
                                                last_update_after(wso.screen_updated,
                                                                  @, now),
                                             !.screen_updated = FALSE,
                                             !.feeding = FALSE]
                       /\ obs' = [obs EXCEPT !.eofInLoop = ~p.running,
                                             !.eofAt = IF p.running THEN @ ELSE now,
                                             !.pollsAtEof =
                                                IF p.running THEN @ ELSE obs.polls]
    /\ UNCHANGED << config, input, boot, harness, child, pipes, wrote, tried, ret, hist, now >>

\* The loop condition: should_poll() ends the call, by returning or by raising
\* TimedOut, or lets it enter wait_for_output(timeout_sec=0.01).
WsoCheck ==
    /\ wso.pc = "check"
    /\ LET d == should_poll(process_running, now, wso.started, wso.last_update,
                            wso.stable_time_sec, wso.max_wait_sec)
           finish == [obs EXCEPT !.ended = now, !.runningAtEnd = process_running,
                                 !.quiet = @ \/ now - Max(obs.lastEmit, obs.callStart)
                                                   >= wso.stable_time_sec]
       IN CASE d = "return" ->
                 /\ wso' = [wso EXCEPT !.pc = "idle"]
                 /\ ret' = Returned("wait_for_stable_output", << >>)
                 /\ obs' = finish
            [] d = "raise" ->
                 /\ wso' = [wso EXCEPT !.pc = "idle"]
                 /\ ret' = Raised("wait_for_stable_output", "TimedOut")
                 /\ obs' = finish
            [] OTHER ->
                 /\ wso' = [wso EXCEPT !.pc = "poll", !.pollLeft = PollInterval]
                 /\ obs' = [obs EXCEPT !.polls = @ + 1]
                 /\ UNCHANGED ret
    /\ UNCHANGED << config, input, boot, harness, terminal, child, pipes, ptyBuf, wrote, tried,
                    hist, now >>

\* Process.wait_for_output(timeout_sec=0.01) returns: True as soon as the
\* master is readable, and then _update_screen begins; False when the timeout
\* has passed, and then the loop continues.
WsoPollReturns ==
    /\ wso.pc = "poll"
    /\ IF Readable
       THEN wso' = [wso EXCEPT !.pc = "drain", !.screen_updated = FALSE]
       ELSE /\ wso.pollLeft = 0
            /\ wso' = [wso EXCEPT !.pc = "check"]
    /\ UNCHANGED << config, input, boot, harness, terminal, child, pipes, ptyBuf, wrote, tried,
                    ret, hist, now, obs >>

\* Time passes between the calls of the test, inside the poll while nothing
\* is readable, and while a chunk that was read is fed to the emulator.
Tick ==
    /\ now < MaxTime
    /\ CASE wso.pc = "idle" -> UNCHANGED wso
         [] wso.pc = "poll" ->
               /\ ~Readable
               /\ wso.pollLeft > 0
               /\ wso' = [wso EXCEPT !.pollLeft = @ - 1]
         [] wso.pc \in { "entry", "drain" } ->
               /\ wso.feeding
               /\ wso' = [wso EXCEPT !.feeding = FALSE]
         [] OTHER -> FALSE
    /\ now' = now + 1
    /\ UNCHANGED << config, input, boot, harness, terminal, child, pipes, ptyBuf, wrote, tried,
                    ret, hist, obs >>

\* ------------------------------------------------------- environments
\* An environment is a function from names to values; a value is a string of
\* characters.
EmptyEnv == [k \in { } |-> << >>]
Linux == << "l", "i", "n", "u", "x" >>

Digit(d) ==
    CASE d = 0 -> "0" [] d = 1 -> "1" [] d = 2 -> "2" [] d = 3 -> "3" [] d = 4 -> "4"
      [] d = 5 -> "5" [] d = 6 -> "6" [] d = 7 -> "7" [] d = 8 -> "8" [] d = 9 -> "9"

\* str(n) of a non-negative integer
RECURSIVE str(_)
str(n) == IF n < 10 THEN << Digit(n) >> ELSE str(n \div 10) \o << Digit(n % 10) >>

\* result_env = env1.copy(): a new dictionary, not the argument itself
env_copy_same_object(env1) == [value |-> env1, aliased |-> TRUE]
env_copy(env1) == [value |-> env1, aliased |-> FALSE]

\* result_env[name] = value
env_assign_unless_present(env, name, value) ==
    [k \in DOMAIN env \cup { name } |-> IF k \in DOMAIN env THEN env[k] ELSE value]
env_assign(env, name, value) ==
    [k \in DOMAIN env \cup { name } |-> IF k = name THEN value ELSE env[k]]

\* The frame of a call of overlay_environment: env1 and env2 are the caller's
\* objects, arg1 and arg2 what they held when the call began.
NoOverlay == [pc |-> "idle", env1 |-> EmptyEnv, env2 |-> None, arg1 |-> EmptyEnv,
              arg2 |-> None, result_env |-> EmptyEnv, aliased |-> FALSE,
              todo |-> { }, returned |-> None]

OverlayCall(env1, env2) ==
    [NoOverlay EXCEPT !.pc = "copy", !.env1 = env1, !.env2 = env2,
                      !.arg1 = env1, !.arg2 = env2]

bootOnly == << config, input, harness, terminal, child, pipes, ptyBuf, wrote, tried,
               ret, hist, timing >>

\* overlay_environment, line 24
OverlayCopy ==
    /\ boot.ov.pc = "copy"
    /\ LET c == env_copy(boot.ov.env1) IN
       boot' = [boot EXCEPT !.ov.result_env = c.value,
                            !.ov.aliased = c.aliased,
                            !.ov.todo = IF boot.ov.env2 = None THEN { }
                                        ELSE DOMAIN boot.ov.env2[1],
                            !.ov.pc = "loop"]
    /\ UNCHANGED bootOnly

\* overlay_environment, lines 26-28: one pass of the loop over env2.items()
OverlayAssign ==
    /\ boot.ov.pc = "loop"
    /\ boot.ov.todo # { }
    /\ LET name == CHOOSE k \in boot.ov.todo : TRUE
           value == boot.ov.env2[1][name]
           r == env_assign(boot.ov.result_env, name, value)
       IN boot' = [boot EXCEPT !.ov.result_env = r,
                               !.ov.env1 = IF boot.ov.aliased THEN r ELSE @,
                               !.ov.todo = @ \ { name }]
    /\ UNCHANGED bootOnly

\* overlay_environment, line 30
OverlayReturn ==
    /\ boot.ov.pc = "loop"
    /\ boot.ov.todo = { }
    /\ boot' = [boot EXCEPT !.ov.returned = Some(boot.ov.result_env),
                            !.ov.pc = "done"]
    /\ UNCHANGED bootOnly

\* ------------------------------------------------------ Process.__init__
\* The environment of the calling process (os.environ)
ParentEnviron ==
    [k \in { "HOME", "TERM" } |-> IF k = "HOME" THEN << "/" >> ELSE << "x" >>]

\* The dictionary of lines 103-107
BaseEnv ==
    [k \in { "TERM", "COLUMNS", "LINES" } |->
        CASE k = "TERM" -> Linux
          [] k = "COLUMNS" -> str(columns)
          [] k = "LINES" -> str(lines)]

\* The state right after pty.fork() of line 97: the parent and the child are
\* both about to run the rest of __init__; the new pty has no window size.
Forked(executable_found, additional_env, stdin) ==
    [parent |-> "forked", child |-> "forked",
     executable_found |-> executable_found,
     additional_env |-> additional_env,
     stdin |-> stdin,
     winsize |-> << 0, 0 >>,
     seen |-> { },
     env |-> None,
     progEnv |-> None,
     stdinPipe |-> << >>,
     stdinWriter |-> FALSE,
     fd |-> [n \in 0..2 |-> "pty"],
     progIn |-> << >>,
     progEof |-> FALSE,
     raisedInChild |-> FALSE,
     ov |-> NoOverlay]

\* The constructor has returned in the parent and the child runs the program
Constructed ==
    [Forked(TRUE, None, None) EXCEPT !.parent = "returned", !.child = "program",
                                     !.winsize = << lines, columns >>]

\* lines 103-108: the child starts building its environment
ChildBuildEnv ==
    /\ boot.child = "forked"
    /\ boot' = [boot EXCEPT !.child = "env",
                            !.ov = OverlayCall(BaseEnv, boot.additional_env)]
    /\ UNCHANGED bootOnly

ChildEnvBuilt ==
    /\ boot.child = "env"
    /\ boot.ov.pc = "done"
    /\ boot' = [boot EXCEPT !.child = "stdin", !.env = boot.ov.returned]
    /\ UNCHANGED bootOnly

\* lines 110-112: os.pipe() and os.write(stdin_w, stdin).  The pipe is a
\* blocking one and nobody reads it yet: a payload longer than the pipe holds
\* leaves the child blocked in the write.
ChildStdinWrite ==
    /\ boot.child = "stdin"
    /\ IF boot.stdin = None
       THEN boot' = [boot EXCEPT !.child = "stdout"]
       ELSE boot' = [boot EXCEPT !.stdinPipe = Take(boot.stdin[1], PipeCapacity),
                                 !.stdinWriter = TRUE,
                                 !.child = IF Len(boot.stdin[1]) > PipeCapacity
                                           THEN "blocked" ELSE "stdin_dup"]
    /\ UNCHANGED bootOnly

\* lines 113-114: os.dup2(stdin_r, 0) and os.close(stdin_w)
ChildStdinDupKeepsWriter ==
    /\ boot.child = "stdin_dup"
    /\ boot' = [boot EXCEPT !.fd[0] = "pipe", !.child = "stdout"]
    /\ UNCHANGED bootOnly

ChildStdinDup ==
    /\ boot.child = "stdin_dup"
    /\ boot' = [boot EXCEPT !.fd[0] = "pipe", !.stdinWriter = FALSE,
                            !.child = "stdout"]
    /\ UNCHANGED bootOnly

\* lines 116-118
ChildDupStdout ==
    /\ boot.child = "stdout"
    /\ boot' = [boot EXCEPT !.fd[1] = IF stdout_redirected THEN "pipe" ELSE @,
                            !.child = "stderr"]
    /\ UNCHANGED bootOnly

\* lines 120-122
ChildDupStderr ==
    /\ boot.child = "stderr"
    /\ boot' = [boot EXCEPT !.fd[2] = IF stderr_redirected THEN "pipe" ELSE @,
                            !.child = "exec"]
    /\ UNCHANGED bootOnly

\* The environment os.execvpe hands to the program
execvpe_env_inherited(env) ==
    [k \in DOMAIN ParentEnviron \cup DOMAIN env |->
        IF k \in DOMAIN env THEN env[k] ELSE ParentEnviron[k]]
execvpe_env(env) == env

\* line 125: os.execvpe replaces the child by the program, or raises in the
\* child when the executable cannot be found; nothing catches the exception,
\* so it leaves __init__ in the child and the child goes on in the code that
\* called the constructor.
ChildExec ==
    /\ boot.child = "exec"
    /\ IF boot.executable_found
       THEN boot' = [boot EXCEPT !.child = "program",
                                 !.progEnv = Some(execvpe_env(boot.env[1]))]
       ELSE boot' = [boot EXCEPT !.child = "caller", !.raisedInChild = TRUE]
    /\ UNCHANGED bootOnly

\* lines 127-131: the parent closes its copies of the write ends
ParentClose ==
    /\ boot.parent = "forked"
    /\ boot' = [boot EXCEPT !.parent = "closed"]
    /\ UNCHANGED bootOnly

\* lines 134-135: fcntl.ioctl(self._child_fd, termios.TIOCSWINSZ, ...)
ParentSetWinsize ==
    /\ boot.parent = "closed"
    /\ boot' = [boot EXCEPT !.parent = "sized", !.winsize = << lines, columns >>]
    /\ UNCHANGED bootOnly

\* line 137, and the return of __init__ in the parent
ParentReturn ==
    /\ boot.parent = "sized"
    /\ boot' = [boot EXCEPT !.parent = "returned"]
    /\ UNCHANGED bootOnly

\* The program asks its terminal for the window size (TIOCGWINSZ)
ProgramGetWinsize ==
    /\ boot.child = "program"
    /\ child.state = "running"
    /\ boot.winsize \notin boot.seen
    /\ boot' = [boot EXCEPT !.seen = @ \cup { boot.winsize }]
    /\ UNCHANGED bootOnly

\* The program reads up to n bytes from descriptor 0: from the private pipe,
\* with end of file once it is empty and its write end closed, or from the pty.
ProgramReadStdin(n) ==
    /\ boot.child = "program"
    /\ child.state = "running"
    /\ IF boot.fd[0] = "pipe"
       THEN /\ boot.stdinPipe # << >> \/ (~boot.stdinWriter /\ ~boot.progEof)
            /\ boot' = [boot EXCEPT !.stdinPipe = Drop(@, n),
                                    !.progIn = @ \o Take(boot.stdinPipe, n),
                                    !.progEof = (boot.stdinPipe = << >>)]
            /\ UNCHANGED input
       ELSE /\ input.queue # << >>
            /\ boot' = [boot EXCEPT !.progIn = @ \o Take(input.queue, n)]
            /\ input' = [input EXCEPT !.queue = Drop(@, n),
                                      !.got = @ \o Take(input.queue, n)]
    /\ UNCHANGED << config, harness, terminal, child, pipes, ptyBuf, wrote, tried,
                    ret, hist, timing >>

\* ----------------------------------------------------------------- plugin
\* Truth value of an optional string: None and "" are false
truthy(value) == value # None /\ value[1] # << >>

\* hasattr(request, "param")
hasattr_param(param) == param # None

\* fixture_tuitest_executable: the parameter, then the command line option,
\* then the ini option (a string, "" when unset)
fixture_tuitest_executable_ini_first(request) ==
    IF hasattr_param(request.executable_param) /\ truthy(request.executable_param)
    THEN Returned("tuitest_executable", request.executable_param[1])
    ELSE IF request.ini_executable # << >>
         THEN Returned("tuitest_executable", request.ini_executable)
         ELSE IF truthy(request.cli_executable)
              THEN Returned("tuitest_executable", request.cli_executable[1])
              ELSE Raised("tuitest_executable", "TuitestSetupException")
fixture_tuitest_executable(request) ==
    IF hasattr_param(request.executable_param) /\ truthy(request.executable_param)
    THEN Returned("tuitest_executable", request.executable_param[1])
    ELSE IF truthy(request.cli_executable)
         THEN Returned("tuitest_executable", request.cli_executable[1])
         ELSE IF request.ini_executable # << >>
              THEN Returned("tuitest_executable", request.ini_executable)
              ELSE Raised("tuitest_executable", "TuitestSetupException")

\* fixture_capture_stdout: the parameter whenever there is one, then the ini
\* option (a bool, False when unset)
fixture_capture_stdout_truthy_param(request) ==
    IF hasattr_param(request.stdout_param) /\ request.stdout_param[1]
    THEN Returned("tuitest_capture_stdout", request.stdout_param[1])
    ELSE IF request.ini_capture_stdout
         THEN Returned("tuitest_capture_stdout", request.ini_capture_stdout)
         ELSE Returned("tuitest_capture_stdout", FALSE)
fixture_capture_stdout(request) ==
    IF hasattr_param(request.stdout_param)
    THEN Returned("tuitest_capture_stdout", request.stdout_param[1])
    ELSE IF request.ini_capture_stdout
         THEN Returned("tuitest_capture_stdout", request.ini_capture_stdout)
         ELSE Returned("tuitest_capture_stdout", FALSE)

\* fixture_capture_stderr
fixture_capture_stderr(request) ==
    IF hasattr_param(request.stderr_param)
    THEN Returned("tuitest_capture_stderr", request.stderr_param[1])
    ELSE IF request.ini_capture_stderr
         THEN Returned("tuitest_capture_stderr", request.ini_capture_stderr)
         ELSE Returned("tuitest_capture_stderr", FALSE)

\* The fixtures the terminal fixture asks for are set up in the order of its
\* arguments; one that raises ends the setup and the fixture body is not run.
NoFixtures == [pc |-> "none", request |-> << >>, results |-> << >>,
               raised |-> None, process |-> None]

FixtureOrder == << "tuitest_executable", "tuitest_capture_stdout",
                   "tuitest_capture_stderr", "terminal" >>

FixtureAfter(name) ==
    FixtureOrder[1 + CHOOSE i \in 1..Len(FixtureOrder) : FixtureOrder[i] = name]

pluginOnly == << process_fields, input, boot, harness, terminal, child, pipes,
                 ptyBuf, wrote, tried, hist, timing >>

FixtureSetup(name, outcome) ==
    /\ fixtures.pc = name
    /\ ret' = outcome
    /\ fixtures' =
          IF outcome.kind = "raise"
          THEN [fixtures EXCEPT !.pc = "error", !.raised = Some(outcome.val[1])]
          ELSE [fixtures EXCEPT !.pc = FixtureAfter(name),
                                !.results = @ \o << outcome.val >>]
    /\ UNCHANGED pluginOnly

FixtureTuitestExecutable ==
    FixtureSetup("tuitest_executable", fixture_tuitest_executable(fixtures.request))

FixtureCaptureStdout ==
    FixtureSetup("tuitest_capture_stdout", fixture_capture_stdout(fixtures.request))

FixtureCaptureStderr ==
    FixtureSetup("tuitest_capture_stderr", fixture_capture_stderr(fixtures.request))

\* The terminal fixture: Process(executable=..., capture_stdout=...,
\* capture_stderr=...) and Terminal(process)
FixtureTerminal ==
    /\ fixtures.pc = "terminal"
    /\ fixtures' = [fixtures EXCEPT
                      !.pc = "done",
                      !.process = Some([executable |-> fixtures.results[1],
                                        capture_stdout |-> fixtures.results[2],
                                        capture_stderr |-> fixtures.results[3]])]
    /\ ret' = Returned("terminal", << >>)
    /\ UNCHANGED pluginOnly

\* ------------------------------------------------------------------ runs
NoCall == [op |-> "none", kind |-> "none", val |-> << >>]

InitChild == [state |-> "running", status |-> 0, how |-> "alive",
              stopPending |-> FALSE, heir |-> FALSE, ttyOpen |-> FALSE,
              stdClosed |-> FALSE]

NoFrame == [pc |-> "idle", stable_time_sec |-> 0, max_wait_sec |-> 0,
            started |-> 0, last_update |-> 0, pollLeft |-> 0,
            screen_updated |-> FALSE, feeding |-> FALSE]

InitObs == [lastEmit |-> 0, quiet |-> FALSE, callStart |-> 0, entered |-> 0,
            polls |-> 0,
            finishedAtEntry |-> FALSE, lastConsume |-> -1, eofInLoop |-> FALSE,
            eofAt |-> 0, pollsAtEof |-> 0, ended |-> 0, runningAtEnd |-> TRUE]

\* Nothing sent to the child yet
NoInput == [queue |-> << >>, sent |-> << >>, got |-> << >>, calls |-> 0]

\* The state after Process(...) and Terminal(process) were constructed and the
\* child has executed the program.
\* pyte.Screen(columns, lines): the dimensions of the new screen
Screen_lines_first(process_columns, process_lines) ==
    [columns |-> process_lines, lines |-> process_columns]
Screen(process_columns, process_lines) ==
    [columns |-> process_columns, lines |-> process_lines]

InitFields ==
    /\ input = NoInput
    /\ exit_status = None
    /\ captured_stdout = None
    /\ captured_stderr = None
    /\ process_running = TRUE
    /\ screen_fed = << >>
    /\ screen = Screen(columns, lines)
    /\ child = InitChild
    /\ pipes = [ch \in Captured |-> << >>]
    /\ ptyBuf = << >>
    /\ wrote = [ch \in Channels |-> << >>]
    /\ tried = [ch \in Channels |-> 0]
    /\ ret = NoCall
    /\ hist = [calls |-> 0, waitpids |-> 0, pipeReads |-> 0, returns |-> 0,
               first |-> None, how |-> "alive", ptyReads |-> 0,
               blind |-> 0]
    /\ now = 0
    /\ wso = NoFrame
    /\ obs = InitObs

InitRest ==
    /\ InitFields
    /\ fixtures = NoFixtures

InitCommon ==
    /\ InitRest
    /\ boot = Constructed

Init ==
    /\ lines = MaxLines
    /\ columns = MaxColumns
    /\ stdin_redirected \in BOOLEAN
    /\ stdout_redirected \in BOOLEAN
    /\ stderr_redirected \in BOOLEAN
    /\ InitCommon

Next ==
    \/ \E ch \in Channels : ChildWrite(ch)
    \/ ChildOpenTty
    \/ ChildCloseTty
    \/ \E c \in ExitCodes, h \in BOOLEAN : ChildExit(c, h)
    \/ ChildKilled
    \/ ChildStop
    \/ ChildCont
    \/ HeirExit
    \/ WaitForFinished
    \/ \E e \in EofKinds : GetStringAt(0, 0, 1, e)

Spec == Init /\ [][Next]_vars

\* Queries with every argument around the bounds, on terminals of every size
\* up to MaxLines x MaxColumns, against a child that prints once and exits.
InitQuery ==
    /\ lines \in 1..MaxLines
    /\ columns \in 1..MaxColumns
    /\ stdin_redirected = FALSE
    /\ stdout_redirected = FALSE
    /\ stderr_redirected = FALSE
    /\ InitCommon

NextQuery ==
    \/ tried["stdout"] = 0 /\ ChildWrite("stdout")
    \/ ChildExit(0, FALSE)
    \/ \E line \in -1..MaxLines, column \in -1..MaxColumns,
          length \in -1..(MaxColumns + 1), e \in EofKinds :
          GetStringAt(line, column, length, e)

SpecQuery == InitQuery /\ [][NextQuery]_vars

\* Color and style queries with every coordinate around the bounds and cells
\* holding every color name of the emulator, hexadecimal strings and other
\* strings, against a child that prints once and exits.
OtherColors ==
    { << "f", "f", "0", "0", "0", "0" >>, << "0", "0", "A", "F", "a", "9" >>,
      << "1", "2", "3", "4", "5" >>, << "1", "2", "3", "4", "5", "6", "7" >>,
      << "f", "f", "0", "0", "0", "g" >>, << >>,
      << "o", "r", "a", "n", "g", "e" >>, Bright \o Default }

PyteColors == MapKeys \cup OtherColors

StyleSets ==
    { { } } \cup { { STYLE_PYTE_ATTRIBUTE_MAP[st] } : st \in Styles }
            \cup { { STYLE_PYTE_ATTRIBUTE_MAP[st] : st \in Styles } }

StyleCells == { [fg |-> Default, bg |-> Default, styles |-> S] : S \in StyleSets }

ColorCells ==
    { [fg |-> c, bg |-> c, styles |-> { }] : c \in PyteColors }
    \cup { [fg |-> Red, bg |-> << "f", "f", "0", "0", "0", "0" >>, styles |-> { }],
           [fg |-> << "1", "2", "3", "4", "5" >>, bg |-> Blue, styles |-> { }] }

InitAttr ==
    /\ lines = MaxLines
    /\ columns = MaxColumns
    /\ stdin_redirected = FALSE
    /\ stdout_redirected = FALSE
    /\ stderr_redirected = FALSE
    /\ InitCommon

\* Every coordinate around the bounds is queried on a plain cell; every cell
\* content is queried at the first and at the last cell of the screen.
PlainCell == [fg |-> Default, bg |-> Default, styles |-> { }]
Corners == { << 0, 0 >>, << MaxLines - 1, MaxColumns - 1 >> }

NextAttr ==
    \/ tried["stdout"] = 0 /\ ChildWrite("stdout")
    \/ ChildExit(0, FALSE)
    \/ \E line \in -1..MaxLines, column \in -1..MaxColumns, e \in EofKinds :
          \/ GetForegroundAt(line, column, PlainCell, e)
          \/ GetBackgroundAt(line, column, PlainCell, e)
          \/ HasStyleAt("BOLD", line, column, PlainCell, e)
    \/ \E pos \in Corners, cell \in ColorCells, e \in EofKinds :
          \/ GetForegroundAt(pos[1], pos[2], cell, e)
          \/ GetBackgroundAt(pos[1], pos[2], cell, e)
    \/ \E pos \in Corners, style \in Styles, cell \in StyleCells, e \in EofKinds :
          HasStyleAt(style, pos[1], pos[2], cell, e)

SpecAttr == InitAttr /\ [][NextAttr]_vars

\* Sends of every text up to MaxSendLen characters to a child that reads its
\* terminal at its own pace, or not at all, and exits at any moment.
Texts == UNION { [1..n -> Characters] : n \in 0..MaxSendLen }

NextSend ==
    \/ \E characters \in Texts : Send(characters)
    \/ \E n \in 1..InputCapacity : ChildReadTty(n)
    \/ ChildExit(0, FALSE)

SpecSend == InitAttr /\ [][NextSend]_vars

\* get_string_at on lines holding a text printed from the first column on or a
\* single character in the last column, with every span around the bounds,
\* against a child that prints once and exits.
MaxText == 2
Data == { << "x" >>, << "y" >> }
Rows ==
    UNION { [0..(n - 1) -> Data] : n \in 0..MaxText }
    \cup { [c \in { MaxColumns - 1 } |-> << "y" >>] }

NextText ==
    \/ tried["stdout"] = 0 /\ ChildWrite("stdout")
    \/ ChildExit(0, FALSE)
    \/ \E line \in { 0, MaxLines - 1 }, column \in 0..MaxColumns,
          length \in 0..MaxColumns, row \in Rows, e \in EofKinds :
          GetStringAtOn(line, column, length, row, e)

SpecText == InitAttr /\ [][NextText]_vars

\* Reads of the pty master by the test itself, with every max_size up to
\* MaxSize, in each of the eight configurations, against a child that writes
\* at any moment and exits at any moment.
NextRead ==
    \/ \E ch \in Channels : ChildWrite(ch)
    \/ \E c \in ExitCodes : ChildExit(c, FALSE)
    \/ \E max_size \in 1..MaxSize, e \in EofKinds,
          fault \in { None } \cup { Some(f) : f \in ReadFaults } :
          GetNewOutput(max_size, e, fault)

SpecRead == Init /\ [][NextRead]_vars

\* The setup of the terminal fixture for every request: with and without a
\* parameter, a command line option and an ini option for the executable,
\* and with and without a parameter and an ini option for the two captures.
OptionalNames(name) == { None, Some(<< >>), Some(name) }
OptionalBools == { None, Some(TRUE), Some(FALSE) }

Requests ==
    [ executable_param : OptionalNames(<< "p" >>),
      cli_executable : OptionalNames(<< "c" >>),
      ini_executable : { << >>, << "i" >> },
      stdout_param : OptionalBools,
      ini_capture_stdout : BOOLEAN,
      stderr_param : OptionalBools,
      ini_capture_stderr : BOOLEAN ]

InitPlugin ==
    /\ lines = MaxLines
    /\ columns = MaxColumns
    /\ stdin_redirected = FALSE
    /\ stdout_redirected = FALSE
    /\ stderr_redirected = FALSE
    /\ InitFields
    /\ boot = Constructed
    /\ \E request \in Requests :
          fixtures = [NoFixtures EXCEPT !.pc = FixtureOrder[1], !.request = request]

NextPlugin ==
    \/ FixtureTuitestExecutable
    \/ FixtureCaptureStdout
    \/ FixtureCaptureStderr
    \/ FixtureTerminal

SpecPlugin == InitPlugin /\ [][NextPlugin]_vars

\* overlay_environment on every pair of environments over two names
EnvValues == { << "B" >>, << "C" >>, << "D" >> }
Envs == UNION { [S -> EnvValues] : S \in SUBSET { "A", "C" } }

InitEnv ==
    /\ lines = MaxLines
    /\ columns = MaxColumns
    /\ stdin_redirected = FALSE
    /\ stdout_redirected = FALSE
    /\ stderr_redirected = FALSE
    /\ InitRest
    /\ \E env1 \in Envs, env2 \in { None } \cup { Some(e) : e \in Envs } :
          boot = [Constructed EXCEPT !.ov = OverlayCall(env1, env2)]

NextEnv ==
    \/ OverlayCopy
    \/ OverlayAssign
    \/ OverlayReturn

SpecEnv == InitEnv /\ [][NextEnv]_vars

\* The constructor from pty.fork() on, parent and child in every interleaving,
\* with and without a stdin payload, an overlay and a resolvable executable.
AdditionalEnvs ==
    { None } \cup { Some(e) : e \in UNION { [S -> { << "B" >> }] :
                                             S \in SUBSET { "TERM", "A" } } }

Payloads == { None } \cup { Some([i \in 1..n |-> i]) : n \in 0..MaxPayload }

InitBoot ==
    /\ lines = MaxLines
    /\ columns = MaxColumns
    /\ stdout_redirected \in BOOLEAN
    /\ stderr_redirected = FALSE
    /\ InitRest
    /\ \E found \in BOOLEAN, ae \in AdditionalEnvs, payload \in Payloads :
          /\ boot = Forked(found, ae, payload)
          /\ stdin_redirected = (payload # None)

NextBoot ==
    \/ ChildBuildEnv
    \/ OverlayCopy
    \/ OverlayAssign
    \/ OverlayReturn
    \/ ChildEnvBuilt
    \/ ChildStdinWrite
    \/ ChildStdinDup
    \/ ChildDupStdout
    \/ ChildDupStderr
    \/ ChildExec
    \/ ParentClose
    \/ ParentSetWinsize
    \/ ParentReturn
    \/ ProgramGetWinsize
    \/ \E n \in 1..PipeCapacity : ProgramReadStdin(n)
    \/ boot.child = "program" /\ ChildReadTty(1)
    \/ boot.parent = "returned" /\ input.calls = 0 /\ Send(<< "a" >>)
    \/ \E c \in ExitCodes : boot.child \in { "program", "caller" } /\ ChildExit(c, FALSE)
    \/ boot.parent = "returned" /\ WaitForFinished

SpecBoot == InitBoot /\ [][NextBoot]_vars

\* The steps of the child branch of the constructor, lines 102-125.  The
\* operating system keeps scheduling a runnable child, so a step of the child
\* that stays possible is eventually taken.
ChildBranch ==
    \/ ChildBuildEnv
    \/ OverlayCopy
    \/ OverlayAssign
    \/ OverlayReturn
    \/ ChildEnvBuilt
    \/ ChildStdinWrite
    \/ ChildStdinDup
    \/ ChildDupStdout
    \/ ChildDupStderr
    \/ ChildExec

SpecBootFair == InitBoot /\ [][NextBoot]_vars /\ WF_vars(ChildBranch)

\* wait_for_stable_output with every pair of durations, against a child that
\* prints to the terminal at any moment, one time less than MaxWrites allows,
\* and exits at any moment.
InitStable ==
    /\ lines = MaxLines
    /\ columns = MaxColumns
    /\ stdin_redirected = FALSE
    /\ stdout_redirected = FALSE
    /\ stderr_redirected = FALSE
    /\ InitCommon

NextStable ==
    \/ tried["stdout"] < MaxWrites - 1 /\ ChildWrite("stdout")
    \/ ChildExit(0, FALSE)
    \/ \E e \in EofKinds : GetStringAt(0, 0, 1, e)
    \/ \E s \in 0..MaxStable, m \in 0..MaxWait : WaitForStableOutput(s, m)
    \/ \E e \in EofKinds : WsoUpdateScreen(e)
    \/ WsoCheck
    \/ WsoPollReturns
    \/ Tick

SpecStable == InitStable /\ [][NextStable]_vars

\* Queries and short waits for stable output against a child that prints once
\* and exits at any moment.
NextFinished ==
    \/ tried["stdout"] = 0 /\ ChildWrite("stdout")
    \/ ChildExit(0, FALSE)
    \/ \E e \in EofKinds : GetStringAt(0, 0, 1, e)
    \/ \E e \in EofKinds : HasStyleAt("BOLD", 0, 0, PlainCell, e)
    \/ \E s \in 0..1, m \in 0..1 : WaitForStableOutput(s, m)
    \/ \E e \in EofKinds : WsoUpdateScreen(e)
    \/ WsoCheck
    \/ WsoPollReturns
    \/ Tick

SpecFinished == InitStable /\ [][NextFinished]_vars

\* Queries and waits for output against a child that may close its standard
\* descriptors, open its controlling terminal by name and write to it, on a
\* terminal with nothing redirected.
NextDetach ==
    \/ ChildCloseStd
    \/ ChildOpenTty
    \/ ChildCloseTty
    \/ \E ch \in Channels : ChildWrite(ch)
    \/ \E c \in ExitCodes : ChildExit(c, FALSE)
    \/ \E e \in EofKinds : GetStringAt(0, 0, 1, e)
    \/ WaitForOutput

SpecDetach == InitStable /\ [][NextDetach]_vars

\* wait_for_finished, and no other call, against a child that writes the
\* number of bytes it has planned, each to its standard output or error, and
\* then exits; in each of the eight configurations.  The child runs on and
\* the test makes its calls: the steps are taken as long as one is possible.
InitPlanned ==
    /\ lines = MaxLines
    /\ columns = MaxColumns
    /\ stdin_redirected \in BOOLEAN
    /\ stdout_redirected \in BOOLEAN
    /\ stderr_redirected \in BOOLEAN
    /\ InitRest
    /\ \E n \in 0..MaxWrites : boot = [plan |-> n] @@ Constructed

NextPlanned ==
    \/ \E ch \in Captured : NextByte <= boot.plan /\ ChildWrite(ch)
    \/ \E c \in ExitCodes : NextByte > boot.plan /\ ChildExit(c, FALSE)
    \/ WaitForFinished

SpecPlanned == InitPlanned /\ [][NextPlanned]_vars /\ WF_vars(NextPlanned)

\* ----------------------------------------------------------------- claims
\* C1: get_string_at raises OutsideBounds exactly when the line is not in
\* [0, lines), the column is not in [0, columns), the length is not positive or
\* the span ends after the last column; the state of the process is immaterial.
C1_StringBounds ==
    ret.op = "get_string_at" =>
       LET line == ret.val[2]
           column == ret.val[3]
           length == ret.val[4]
       IN (ret.kind = "raise" /\ ret.val[1] = "OutsideBounds")
             <=> ~( /\ 0 <= line /\ line < lines
                    /\ 0 <= column /\ column < columns
                    /\ length > 0
                    /\ column + length <= columns )

C1_Witness ==
    /\ ~process_running
    /\ ret.op = "get_string_at" /\ ret.kind = "raise"
    /\ ret.val[2] = 0 /\ ret.val[3] = columns - 1 /\ ret.val[4] = 2

WaitReturned == ret.op = "wait_for_finished" /\ ret.kind = "return"

\* C2: once a call of wait_for_finished has returned, every later call returns
\* the same triple, without raising, without another waitpid and without
\* another read of a capture pipe.
C2_WaitForFinishedIdempotent ==
    [][ (hist.first # None /\ hist'.calls # hist.calls)
        => /\ ret'.kind = "return"
           /\ ret'.val = hist.first[1]
           /\ hist'.waitpids = hist.waitpids
           /\ hist'.pipeReads = hist.pipeReads
           /\ pipes' = pipes
           /\ child' = child ]_vars

C2_Witness ==
    /\ hist.returns >= 2
    /\ hist.first # None
    /\ hist.first[1][2] # None
    /\ hist.first[1][2][1] # << >>

\* C3: a byte written to stdout or stderr is in the byte stream of the pty
\* master (read by get_new_output and fed to the screen, or still to be read)
\* exactly when its channel is not captured; a byte written to the controlling
\* terminal always is.  This holds in each of the eight configurations.
PtyStream == screen_fed \o ptyBuf

C3_CaptureRouting ==
    /\ \A ch \in Captured : \A b \in Range(wrote[ch]) :
          (b \in Range(PtyStream)) <=> ~(IF ch = "stdout" THEN stdout_redirected
                                                          ELSE stderr_redirected)
    /\ \A b \in Range(wrote["tty"]) : b \in Range(PtyStream)
    /\ \A ch \in Captured :
          (IF ch = "stdout" THEN stdout_redirected ELSE stderr_redirected)
             => Range(wrote[ch]) \cap Range(screen_fed) = { }

C3_Witness ==
    /\ stdin_redirected /\ stdout_redirected /\ ~stderr_redirected
    /\ wrote["stdout"] # << >> /\ wrote["stderr"] # << >> /\ wrote["tty"] # << >>
    /\ ptyBuf = << >>
    /\ Len(screen_fed) = 2

\* C4: in every triple wait_for_finished returns, stdout is None exactly when
\* capture_stdout was false, and stderr is None exactly when capture_stderr was.
C4_NoneIffNotCaptured ==
    WaitReturned => /\ (ret.val[2] = None) <=> ~stdout_redirected
                    /\ (ret.val[3] = None) <=> ~stderr_redirected

\* C5: for a child that exited normally, wait_for_finished returns for each
\* captured channel exactly the bytes the child wrote to it, in write order.
C5_CapturedExactly ==
    (WaitReturned /\ hist.how = "exited")
       => /\ stdout_redirected => ret.val[2] = Some(wrote["stdout"])
          /\ stderr_redirected => ret.val[3] = Some(wrote["stderr"])

\* C6: a child that writes more bytes to a captured channel than the capture
\* pipe holds finishes with exit status 0 and all its bytes are returned.
C6_LargeOutputCaptured ==
    \A ch \in Captured :
       LET flag == IF ch = "stdout" THEN stdout_redirected ELSE stderr_redirected
           got == IF ch = "stdout" THEN ret.val[2] ELSE ret.val[3]
       IN (WaitReturned /\ hist.how = "exited" /\ flag /\ tried[ch] > PipeCapacity)
             => /\ ret.val[1] = 0
                /\ got # None
                /\ Len(got[1]) = tried[ch]

WsoCalled == ret.op = "wait_for_stable_output"
WsoReturned == WsoCalled /\ ret.kind = "return"
WsoTimedOut == WsoCalled /\ ret.kind = "raise" /\ ret.val[1] = "TimedOut"

\* C7: when wait_for_stable_output returns while the process is not known to
\* have finished, at least stable_time_sec has passed since the call began and
\* since the last refresh inside the loop that fed bytes to the screen.
C7_StableWaitsAtLeast ==
    (WsoReturned /\ obs.runningAtEnd)
       => /\ obs.ended - Max(obs.callStart, obs.lastConsume) >= wso.stable_time_sec
          /\ obs.ended - obs.callStart >= wso.stable_time_sec

C7_Witness ==
    /\ WsoReturned /\ obs.runningAtEnd
    /\ wso.stable_time_sec = 2
    /\ obs.lastConsume = obs.callStart + 1
    /\ obs.ended = obs.callStart + 3

\* C8: a call made when the process has finished (seen earlier, or by the
\* call's first refresh) returns at once: no poll, no wait, no TimedOut, for
\* every stable_time_sec and max_wait_sec.
C8_FinishedReturnsAtOnce ==
    (WsoCalled /\ obs.finishedAtEntry)
       => /\ wso.pc # "poll"
          /\ obs.polls = 0
          /\ wso.pc = "idle" => (ret.kind = "return" /\ obs.ended = obs.entered)

C8_Witness ==
    /\ WsoReturned /\ obs.finishedAtEntry
    /\ wso.stable_time_sec = 2 /\ wso.max_wait_sec = 0
    /\ obs.callStart > 0

\* C9: against a running process whose output never stays unchanged for
\* stable_time_sec, the call does not return normally, and no call lasts longer
\* than max_wait_sec plus one poll interval: it ends by raising TimedOut, between
\* max_wait_sec and max_wait_sec plus one poll interval after it began (counted
\* from the timestamp the call takes when it begins).
C9_TimesOutWhenUnstable ==
    /\ (wso.pc \in { "check", "poll", "drain" })
          => now - obs.entered <= wso.max_wait_sec + PollInterval
    /\ (WsoReturned /\ obs.runningAtEnd) => obs.quiet
    /\ WsoTimedOut => /\ obs.ended - obs.entered > wso.max_wait_sec
                      /\ obs.ended - obs.entered <= wso.max_wait_sec + PollInterval

\* C10: when a refresh inside the loop finds the process finished, the call
\* returns at the next check: no further poll, no wait for stable_time_sec, no
\* TimedOut even with max_wait_sec exceeded.
C10_FinishedInLoopReturns ==
    (WsoCalled /\ obs.eofInLoop)
       => /\ wso.pc # "poll"
          /\ wso.pc = "idle" => /\ ret.kind = "return"
                                /\ obs.ended = obs.eofAt
                                /\ obs.polls = obs.pollsAtEof

C10_Witness ==
    /\ WsoReturned /\ obs.eofInLoop
    /\ obs.ended - obs.callStart > wso.max_wait_sec
    /\ obs.ended - wso.last_update < wso.stable_time_sec

AttributeQueries == { "get_foreground_at", "get_background_at", "has_style_at" }

\* C11: get_foreground_at, get_background_at and has_style_at raise
\* OutsideBounds exactly when the line is not in [0, lines) or the column is not
\* in [0, columns), whatever the process state and the content of the cell.
C11_AttributeBounds ==
    ret.op \in AttributeQueries =>
       LET line == ret.val[2]
           column == ret.val[3]
       IN (ret.kind = "raise" /\ ret.val[1] = "OutsideBounds")
             <=> ~(0 <= line /\ line < lines /\ 0 <= column /\ column < columns)

C11_Witness ==
    /\ ~process_running
    /\ ret.op = "has_style_at" /\ ret.kind = "raise"
    /\ ret.val[1] = "OutsideBounds"
    /\ ret.val[2] = 0 /\ ret.val[3] = columns

\* C20: for a cell inside the bounds, get_foreground_at and get_background_at
\* return the Color16 member when the emulator's value is a key of the named
\* table, return the value itself when it is six hexadecimal digits, and raise
\* UnrecognizedColor otherwise; the two methods decode alike.
C20_ColorDecoding ==
    (ret.op \in { "get_foreground_at", "get_background_at" }
       /\ ~(ret.kind = "raise" /\ ret.val[1] = "OutsideBounds"))
    => LET cell == ret.val[4]
           c == IF ret.op = "get_foreground_at" THEN cell.fg ELSE cell.bg
           named == \E i \in 1..Len(PYTE_TO_COLOR_NAMED_MAP) :
                       PYTE_TO_COLOR_NAMED_MAP[i][1] = c
           sixhex == Len(c) = 6 /\ \A i \in 1..Len(c) : c[i] \in hexdigits
       IN /\ named => /\ ret.kind = "return"
                      /\ \E i \in 1..Len(PYTE_TO_COLOR_NAMED_MAP) :
                            /\ PYTE_TO_COLOR_NAMED_MAP[i][1] = c
                            /\ ret.val[1] = << "Color16", PYTE_TO_COLOR_NAMED_MAP[i][2] >>
          /\ (~named /\ sixhex) => (ret.kind = "return" /\ ret.val[1] = << "str", c >>)
          /\ (~named /\ ~sixhex) => (ret.kind = "raise" /\ ret.val[1] = "UnrecognizedColor")

C20_Witness ==
    /\ ret.op = "get_background_at" /\ ret.kind = "return"
    /\ ret.val[1] = << "str", << "f", "f", "0", "0", "0", "0" >> >>
    /\ ret.val[4].fg = Red

\* C12: wait_for_finished returns, and stores an exit status, only when the
\* child has terminated; never while the child is running or merely stopped.
C12_BlocksUntilTerminated ==
    /\ exit_status # None => ~ChildAlive
    /\ WaitReturned => ~ChildAlive

\* C13: for a child that exited normally with exit code c, the status element
\* of the triple wait_for_finished returns is c, the wait status shifted right
\* by eight; every returned status is in 0..255.
C13_ExitStatus ==
    WaitReturned => /\ ret.val[1] \in 0..255
                    /\ hist.how = "exited" => child.status = ExitedStatus(ret.val[1])

\* C15: every send that returned without raising has delivered the whole
\* encoding of its text: the bytes of all returned sends, in the order sent,
\* are the bytes the child has read from its terminal followed by the bytes
\* waiting in the input queue of the pty.
C15_SendDeliversAll ==
    input.sent = input.got \o input.queue

\* C14: with an executable that cannot be resolved, the constructor does not
\* raise, and a later wait_for_finished returns a status other than zero.
C14_UnresolvableExecutable ==
    /\ ~boot.raisedInChild
    /\ (~boot.executable_found /\ WaitReturned) => ret.val[1] # 0

\* C16: the environment of the executed program has exactly the names TERM,
\* COLUMNS and LINES and the names of additional_env; a name of additional_env
\* has its value there, the others are "linux", str(columns) and str(lines);
\* nothing comes from the environment of the parent.
C16_ChildEnvironment ==
    boot.progEnv # None =>
       LET e == boot.progEnv[1]
           over == IF boot.additional_env = None THEN EmptyEnv
                   ELSE boot.additional_env[1]
       IN /\ DOMAIN e = { "TERM", "COLUMNS", "LINES" } \cup DOMAIN over
          /\ \A k \in DOMAIN e :
                e[k] = IF k \in DOMAIN over THEN over[k]
                       ELSE CASE k = "TERM" -> Linux
                              [] k = "COLUMNS" -> str(columns)
                              [] k = "LINES" -> str(lines)

C16_Witness ==
    /\ boot.progEnv # None
    /\ boot.additional_env # None
    /\ DOMAIN boot.additional_env[1] = { "TERM", "A" }
    /\ boot.progEnv[1]["TERM"] = << "B" >>
    /\ boot.progEnv[1]["LINES"] = str(lines)

\* C17: overlay_environment(env1, env2) returns a new mapping over the union of
\* the names, with env2's value where env2 has the name and env1's otherwise,
\* equal to env1 when env2 is None; env1 and env2 are left as they were.
C17_OverlayEnvironment ==
    /\ boot.ov.env1 = boot.ov.arg1
    /\ boot.ov.env2 = boot.ov.arg2
    /\ boot.ov.pc = "done" =>
          LET r == boot.ov.returned[1]
              e1 == boot.ov.arg1
              e2 == IF boot.ov.arg2 = None THEN EmptyEnv ELSE boot.ov.arg2[1]
          IN /\ ~boot.ov.aliased
             /\ DOMAIN r = DOMAIN e1 \cup DOMAIN e2
             /\ \A k \in DOMAIN r : r[k] = IF k \in DOMAIN e2 THEN e2[k] ELSE e1[k]
             /\ boot.ov.arg2 = None => r = e1

C17_Witness ==
    /\ boot.ov.pc = "done"
    /\ boot.ov.arg1 = [k \in { "A" } |-> << "B" >>]
    /\ boot.ov.arg2 = Some([k \in { "A", "C" } |-> IF k = "A" THEN << "C" >> ELSE << "D" >>])
    /\ boot.ov.returned[1]["A"] = << "C" >>

\* C18: every window size the executed program reads from its terminal is the
\* (lines, columns) given to the constructor.
C18_WindowSizeSeen ==
    \A size \in boot.seen : size = << lines, columns >>

\* C19: with a stdin payload the program's standard input is the private pipe:
\* what it reads there is the payload, in order and complete, then end of file;
\* no payload byte is in the pty, and the program can still read what was sent
\* through the pty.  Without a payload standard input stays on the pty.
C19_StdinPayload ==
    /\ (boot.stdin # None /\ boot.child = "program") =>
          LET payload == boot.stdin[1] IN
          /\ boot.fd[0] = "pipe"
          /\ boot.progIn \o boot.stdinPipe = payload
          /\ ~boot.stdinWriter
          /\ boot.progEof => boot.progIn = payload
          /\ Range(payload) \cap Range(input.queue \o input.got \o ptyBuf) = { }
          /\ (child.state = "running" /\ input.queue # << >>) => ENABLED ChildReadTty(1)
    /\ boot.stdin = None =>
          /\ boot.fd[0] = "pty"
          /\ ~boot.progEof
          /\ Range(boot.progIn) \subseteq Range(input.sent)

C19_Witness ==
    /\ boot.stdin = Some(<< 1, 2 >>)
    /\ boot.progEof
    /\ boot.progIn = << 1, 2 >>
    /\ input.got # << >>

\* C21: has_style_at reads one attribute of the cell per style and the six
\* styles read six different attributes: on a cell with exactly one attribute
\* set the answer is true for the style of that attribute and false for the
\* other five.
C21_StyleOfAttribute(attribute) ==
    CASE attribute = "bold" -> "BOLD"
      [] attribute = "italics" -> "ITALIC"
      [] attribute = "underscore" -> "UNDERLINE"
      [] attribute = "blink" -> "BLINKING"
      [] attribute = "reverse" -> "INVERSE"
      [] attribute = "strikethrough" -> "STRIKETHROUGH"

C21_StyleAttributes ==
    (ret.op = "has_style_at" /\ ret.kind = "return"
        /\ Cardinality(ret.val[4].styles) = 1) =>
       LET style == ret.val[1][3]
           answer == ret.val[1][2]
           attribute == CHOOSE a \in ret.val[4].styles : TRUE
       IN answer = (style = C21_StyleOfAttribute(attribute))

C21_Witness ==
    /\ ret.op = "has_style_at" /\ ret.kind = "return"
    /\ ret.val[4].styles = { "bold" }
    /\ ret.val[1][3] = "ITALIC"
    /\ ret.val[1][2] = FALSE

\* C22: for arguments inside the bounds get_string_at returns the contents of
\* the cells (line, column) .. (line, column + length - 1) in column order,
\* with a space for a cell nothing was printed to; on a screen that received
\* no output the result is length spaces.
C22_StringContent ==
    (ret.op = "get_string_at" /\ ret.kind = "return") =>
       LET column == ret.val[3]
           length == ret.val[4]
           string == ret.val[5]
           row == ret.val[6]
       IN /\ Len(string) = length
          /\ \A i \in 1..length :
                string[i] = IF column + i - 1 \in DOMAIN row
                            THEN row[column + i - 1][1] ELSE " "
          /\ screen_fed = << >> => \A i \in 1..length : string[i] = " "

C22_Witness ==
    /\ ret.op = "get_string_at" /\ ret.kind = "return"
    /\ ret.val[3] = 0 /\ ret.val[4] = MaxColumns
    /\ ret.val[5][1] = "x" /\ ret.val[5][2] = "y" /\ ret.val[5][MaxColumns] = " "

\* C23: tuitest_executable is the non-empty parameter of the test if there is
\* one, else the command line option if it is set, else the ini option if it
\* is set; with none of the three the fixture raises TuitestSetupException and
\* no process is ever spawned.
C23_ExecutablePriority ==
    LET request == fixtures.request
        param == request.executable_param
        cli == request.cli_executable
        ini == request.ini_executable
        isSet(o) == o # None /\ o # Some(<< >>)
        resolved == fixtures.pc \notin { "none", "tuitest_executable" }
    IN resolved =>
          IF isSet(param) THEN fixtures.results[1] = param[1]
          ELSE IF isSet(cli) THEN fixtures.results[1] = cli[1]
          ELSE IF ini # << >> THEN fixtures.results[1] = ini
          ELSE /\ fixtures.raised = Some("TuitestSetupException")
               /\ fixtures.process = None

C23_Witness ==
    /\ fixtures.pc = "done"
    /\ fixtures.request.executable_param = Some(<< >>)
    /\ fixtures.request.cli_executable = Some(<< "c" >>)
    /\ fixtures.request.ini_executable = << "i" >>
    /\ fixtures.process # None
    /\ fixtures.process[1].executable = << "c" >>

ReadCalled == ret.op = "get_new_output"
ReadKind == ret.val[2]
ReadMaxSize == ret.val[3]
ReadBefore == ret.val[4]

\* C25: a read that would block returns empty bytes and does not raise; a
\* zero-length read raises ProcessFinished; a read of data is returned as it
\* is, not empty and at most max_size bytes.
C25_NoDataIsNotEnd ==
    ReadCalled =>
       /\ ReadKind = "BlockingIOError" => (ret.kind = "return" /\ ret.val[1] = << >>)
       /\ ReadKind = "empty" =>
             (ret.kind = "raise" /\ ret.val[1] = << "ProcessFinished" >>)
       /\ ReadKind = "data" =>
             /\ ret.kind = "return"
             /\ ret.val[1] # << >>
             /\ Len(ret.val[1]) <= ReadMaxSize
             /\ \A i \in 1..Len(ret.val[1]) : ret.val[1][i] = ReadBefore[i]

C25_Witness ==
    /\ ReadCalled /\ ReadKind = "data" /\ ret.kind = "return"
    /\ Len(ReadBefore) > ReadMaxSize
    /\ Len(ret.val[1]) = ReadMaxSize

\* C26: a read that fails with EIO gives empty bytes when stdin, stdout and
\* stderr are all three redirected and ProcessFinished in each of the other
\* seven configurations.
C26_EioByConfiguration ==
    (ReadCalled /\ ReadKind = "EIO") =>
       IF stdin_redirected /\ stdout_redirected /\ stderr_redirected
       THEN ret.kind = "return" /\ ret.val[1] = << >>
       ELSE ret.kind = "raise" /\ ret.val[1] = << "ProcessFinished" >>

C26_Witness ==
    /\ ReadCalled /\ ReadKind = "EIO"
    /\ stdin_redirected /\ stdout_redirected /\ ~stderr_redirected
    /\ ret.kind = "raise"

\* C28: an OSError of the read with an errno other than EIO reaches the
\* caller of get_new_output as that OSError.
C28_OtherErrorsPropagate ==
    (ReadCalled /\ ReadKind \in ReadFaults) =>
       (ret.kind = "raise" /\ ret.val[1] = << ReadKind >>)

\* C27: with stdin, stdout and stderr all redirected only the error of the
\* first read is absorbed: when the child has exited and everything it wrote
\* to the pty has been read, a refresh of the screen after the first such one
\* sees the end of the stream and clears the process-running flag.
C27_EndOfStreamSeen == hist.blind < 2

\* C29: a query that raises OutsideBounds has refreshed the screen before it
\* checked its arguments: when it ends, no output of the process is left
\* unread in the pty.
C29_DrainsBeforeValidating ==
    [][ ( /\ ret' # ret
          /\ ret'.op \in { "get_string_at", "get_foreground_at",
                            "get_background_at", "has_style_at" }
          /\ ret'.kind = "raise"
          /\ ret'.val[1] = "OutsideBounds" )
        => ptyBuf' = << >> ]_vars

\* C30: the process-running flag starts true; once it is false it is false in
\* every later state, and from then on no operation of the Terminal reads the
\* pty again: nothing more is fed to the screen, nothing is taken from the
\* pty, a query makes no call of get_new_output and a refresh of the screen
\* reports no change.
C30_FinishedIsPermanent ==
    /\ process_running = TRUE
    /\ [][ ~process_running =>
              /\ ~process_running'
              /\ screen_fed' = screen_fed
              /\ ptyBuf' = ptyBuf
              /\ ~wso'.screen_updated
              /\ hist' # hist => hist'.ptyReads = 0 ]_vars

C30_Witness ==
    /\ ~process_running
    /\ ret.op = "has_style_at" /\ ret.kind = "return"
    /\ hist.ptyReads = 0
    /\ obs.finishedAtEntry

\* The byte stream the child wrote to the pty: bytes are numbered in the order
\* of the writes, so the stream is the bytes that reached the pty, ascending.
WrittenToPty ==
    UNION { Range(wrote[ch]) : ch \in { c \in Channels : ~Redirected(c) } }

RECURSIVE Ascending(_)
Ascending(S) ==
    IF S = { } THEN << >>
    ELSE LET least == CHOOSE b \in S : \A o \in S : b <= o
         IN << least >> \o Ascending(S \ { least })

\* C31: the bytes fed to the emulator are a prefix of the stream the child
\* wrote to the pty, in order and each once; once the end of the stream was
\* observed they are the whole stream.
C31_FedIsPrefix ==
    LET stream == Ascending(WrittenToPty) IN
    /\ Len(screen_fed) <= Len(stream)
    /\ \A i \in 1..Len(screen_fed) : screen_fed[i] = stream[i]
    /\ ~process_running => screen_fed = stream

\* C32: wait_for_output drains: when it returns, the output that made the pty
\* readable has been read and fed to the screen, none of it is left in the pty.
C32_WaitForOutputDrains ==
    [][ (ret'.op = "wait_for_output" /\ ret' # ret) => ptyBuf' = << >> ]_vars

\* C33: inside the loop of wait_for_stable_output the last-change timestamp is
\* set to the current time at the end of a drain that fed output to the
\* emulator, and changes in no other step: not when a poll times out, not
\* after a drain that read nothing, and the drain before the loop only
\* precedes its initial value.
C33_InLoop == wso.pc \notin { "idle", "entry" } /\ wso'.pc # "idle"

C33_LastChangeReset ==
    [][ /\ (C33_InLoop /\ wso'.last_update # wso.last_update) =>
              (wso.pc = "drain" /\ wso'.pc = "check" /\ wso.screen_updated)
        /\ (wso.pc = "drain" /\ wso'.pc = "check" /\ wso.screen_updated) =>
              wso'.last_update = now
        /\ (wso.pc = "poll" /\ wso'.pc = "drain") => ~wso'.screen_updated
        /\ (wso'.screen_updated /\ ~wso.screen_updated) =>
              Len(screen_fed') > Len(screen_fed)
        /\ (wso.pc = "entry" /\ wso'.pc = "check") =>
              (wso'.last_update = now /\ wso'.started = now) ]_vars

C33_Witness ==
    /\ wso.pc = "check"
    /\ wso.last_update > wso.started
    /\ obs.lastConsume >= wso.started

\* C34: the loop check of wait_for_stable_output decides in the order
\* finished, stable, timed out.  TimedOut is raised only with the process
\* still running, the time since the last change below stable_time_sec and
\* the time since the call began above max_wait_sec; a call returns only
\* with the process finished or the output stable; the two durations are
\* taken as given, in any relation to each other.
C34_CheckOrder ==
    (ret.op = "wait_for_stable_output" /\ wso.pc = "idle") =>
       LET since_change == obs.ended - wso.last_update
           since_start == obs.ended - wso.started
       IN /\ ret.kind = "raise" =>
               /\ ret.val = << "TimedOut" >>
               /\ obs.runningAtEnd
               /\ since_change < wso.stable_time_sec
               /\ since_start > wso.max_wait_sec
          /\ ret.kind = "return" =>
               (~obs.runningAtEnd \/ since_change >= wso.stable_time_sec)

C34_Witness ==
    /\ ret.op = "wait_for_stable_output" /\ wso.pc = "idle"
    /\ ret.kind = "return"
    /\ obs.runningAtEnd
    /\ obs.ended - wso.started > wso.max_wait_sec
    /\ wso.max_wait_sec < wso.stable_time_sec

\* C35: the capture pipes are read only on the exit of the child, inside the
\* first wait_for_finished that completes: never while the child is alive;
\* a buffer that is set holds its pipe read to the end, and never changes
\* afterwards.
C35_CaptureReadOnExit ==
    /\ [](hist.pipeReads > 0 => ~ChildAlive)
    /\ [](\A ch \in Captured :
            LET buffer == IF ch = "stdout" THEN captured_stdout ELSE captured_stderr
            IN buffer # None => (pipes[ch] = << >> /\ buffer[1] = wrote[ch]))
    /\ [][ /\ captured_stdout # None => captured_stdout' = captured_stdout
           /\ captured_stderr # None => captured_stderr' = captured_stderr ]_vars

\* C36: wait_for_finished eventually returns for every child that writes a
\* finite amount of output and then exits, whatever the amount.
C36_WaitForFinishedReturns ==
    <>(ret.op = "wait_for_finished" /\ ret.kind = "return")
\* C37: for a stdin payload of any length the forked child eventually reaches
\* the exec of line 125 (which replaces it by the program or raises): the write
\* of the payload into the private pipe never blocks the child forever.
C37_ChildReachesExec == <>(boot.child \in { "program", "caller" })

\* C38: after the fork the child only runs the child branch of the
\* constructor: it never goes on in the code that called the constructor,
\* neither by a return nor by an exception, and when the exec fails it ends
\* with a status other than zero.
C38_ChildNeverReturns ==
    /\ boot.child # "caller"
    /\ (~boot.executable_found /\ child.how = "exited") => child.status # 0

\* C39: the size of the harness is fixed at construction: no step changes
\* lines or columns, the screen has exactly that many columns and lines in
\* every state, and a color or style query raises OutsideBounds exactly for a
\* coordinate outside that screen.
C39_SizeFixed ==
    /\ [](screen = [columns |-> columns, lines |-> lines])
    /\ [][ /\ lines' = lines
           /\ columns' = columns
           /\ screen' = screen
           /\ ret' # ret =>
                 ((ret'.kind = "raise" /\ ret'.val[1] = "OutsideBounds")
                    <=> ~(/\ ret'.val[2] \in 0..(screen.lines - 1)
                          /\ ret'.val[3] \in 0..(screen.columns - 1))) ]_vars

\* A query of the last cell of a screen that is not square has returned
C39_Witness ==
    /\ ret.kind = "return"
    /\ ret.op = "get_foreground_at"
    /\ ret.val[2] = lines - 1
    /\ ret.val[3] = columns - 1
    /\ screen.lines # screen.columns
    /\ screen_fed # << >>

====
